---- MODULE Spec2Model ----
(***************************************************************************)
(* Model of pilight-cc's service control plane                             *)
(* (src/pilightcc/services/service.py, with the work function of           *)
(* src/pilightcc/services/capture/capture.py).                             *)
(*                                                                         *)
(*   Spec      : one worker (BaseService) and the controller that sends    *)
(*               it ENABLE / KILL / SETTINGS / unknown messages.           *)
(*   SpecStore : a SettingsStore on its own, driven by add_unit / update.  *)
(*                                                                         *)
(* Python's None is the string "None".  Times are tenths of a second.      *)
(***************************************************************************)
EXTENDS Integers, Sequences, FiniteSets, TLC

VARIABLES
    requireSettings,  \* constructor argument require_settings
    enabled,          \* BaseService.__enabled
    shuttingDown,     \* BaseService.__shutting_down
    initialized,      \* BaseService.__initialized
    state,            \* BaseService._state (last published ServiceState)
    sent,             \* STATE payloads the worker sent on the socket, in order
    inbox,            \* controller -> worker messages in flight (ordered)
    pc,               \* worker position: "loop", "backoff", "check", "done"
    delay,            \* remaining delay of the running _safe_delay call
    settings,         \* SettingsStore.__settings
    units,            \* SettingsStore.__units
    cbLog,            \* callbacks invoked by the last SettingsStore.update
    lastSnap,         \* argument of the last SettingsStore.update
    calls,            \* hooks invoked by the worker, in order
    handled,          \* messages handled by the worker, in order
    setupSeen,        \* the settings store as _setup found it
    lastUpd,          \* the last _update_state call: previous, new, sent?
    nSent,            \* number of messages the controller has sent
    chan,             \* worker -> controller messages in flight (ordered)
    connState,        \* ServiceConnector.__state (the cached ServiceState)
    event,            \* ServiceConnector.__state_update_event is set
    lock,             \* holder of ServiceConnector.__state_lock, or "none"
    monPc,            \* monitor thread position: "recv", "write", "set"
    monMsg,           \* payload the monitor thread is recording
    received,         \* messages the monitor thread received, in order
    callerPc,         \* caller thread position in the ServiceConnector calls
    nUpdates,         \* completed calls of ServiceConnector.__update_state
    nReturns,         \* calls of wait_for_update that returned True
    lastAccess,       \* last access to the cache: thread, call, lock holder
    clock,            \* time.clock()
    timerDelay,       \* DelayTimer.__delay
    lastTime,         \* DelayTimer.__last_time
    started,          \* DelayTimer.start() was called
    slept,            \* time the last DelayTimer.delay() blocked
    timerOp           \* last DelayTimer operation

connVars == <<connState, event, lock, monPc, monMsg, received, callerPc,
              nUpdates, nReturns, lastAccess>>

timerVars == <<clock, timerDelay, lastTime, started, slept, timerOp>>

vars == <<requireSettings, enabled, shuttingDown, initialized, state, sent,
          inbox, pc, delay, settings, units, cbLog, lastSnap, calls, handled,
          setupSeen, lastUpd, nSent, chan, connVars, timerVars>>

----------------------------------------------------------------------------
(* Bounds *)

MaxMsgs == 3      \* messages the controller sends
MaxRuns == 2      \* invocations of the work function
MaxUnits == 2     \* units registered in SpecStore
MaxOther == 1     \* messages other than STATE sent to the controller
MaxTime == 6      \* largest value of time.clock() in SpecTimer
MaxInterval == 4  \* largest DelayTimer delay in SpecTimer

----------------------------------------------------------------------------
(* Program constants *)

None == "None"

\* ServiceMessage.Type
Type_ENABLE == 0
Type_KILL == 1
Type_SETTINGS == 2
Type_STATE == 3

\* CaptureService.StateValue
OK == "OK"          \* = 1
ERROR == "ERROR"    \* = 2

SAFE_DELAY_INCREMENT == 5     \* 0.5 s
ERROR_DELAY == 50             \* 5 s

\* HyperionError messages the work function can fail with
Faults == {"refused", "timeout"}

----------------------------------------------------------------------------
(* ServiceState *)

ServiceState(enable, shutdown, value, msg) ==
    [enable |-> enable, shutdown |-> shutdown, value |-> value, msg |-> msg]

\* _state before the first _update_state (Python None): equal to no state
NoState == [enable |-> FALSE, shutdown |-> FALSE, value |-> "unset",
            msg |-> "unset"]

state_eq_no_msg(a, b) ==
    /\ a.enable = b.enable
    /\ a.shutdown = b.shutdown
    /\ a.value = b.value

state_eq(a, b) ==
    /\ a.enable = b.enable
    /\ a.shutdown = b.shutdown
    /\ a.value = b.value
    /\ a.msg = b.msg

to_data(s) ==
    [service |-> [enable |-> s.enable, shutdown |-> s.shutdown],
     value |-> s.value, msg |-> s.msg]

----------------------------------------------------------------------------
(* SettingsStore *)

\* the callbacks update() invokes for one changed key, in registration order
callbacks_for(us, key, store) ==
    LET F[j \in 0..Len(us)] ==
            IF j = 0 THEN <<>>
            ELSE IF key \in us[j].keys /\ us[j].callback
                 THEN Append(F[j-1], [unit |-> j, seen |-> store])
                 ELSE F[j-1]
    IN F[Len(us)]

\* dict item assignment: self.__settings[key] = value
set_item(store, key, value) ==
    [k \in DOMAIN store \cup {key} |-> IF k = key THEN value ELSE store[k]]

\* the test update() makes for one item of the snapshot
changed_or_same(store, key, value) == key \in DOMAIN store
changed_or_new(store, key, value) == key \notin DOMAIN store \/ store[key] # value
changed(store, key, value) == key \in DOMAIN store /\ store[key] # value

RECURSIVE update_from(_, _, _, _, _, _)
update_from(store, us, snap, order, i, log) ==
    IF i > Len(order) THEN [settings |-> store, cbLog |-> log]
    ELSE LET key == order[i]
             value == snap[key]
         IN IF changed(store, key, value)
            THEN LET s2 == set_item(store, key, value)
                 IN update_from(s2, us, snap, order, i + 1,
                                log \o callbacks_for(us, key, s2))
            ELSE update_from(store, us, snap, order, i + 1, log)

\* SettingsStore.update; order is the iteration order of settings.iteritems()
update(store, us, snap, order) == update_from(store, us, snap, order, 1, <<>>)

\* SettingsStore.add_unit
add_unit(store, us, keys, callback) ==
    [units |-> Append(us, [keys |-> keys, callback |-> callback]),
     settings |-> [k \in DOMAIN store \cup keys |->
                      IF k \in keys THEN None ELSE store[k]]]

\* the iteration orders of a dict with key set S
Orders(S) == {o \in [1..Cardinality(S) -> S] : \A k \in S : \E i \in DOMAIN o : o[i] = k}

----------------------------------------------------------------------------
(* BaseService: the worker's fields as a record *)

W == [enabled |-> enabled, shuttingDown |-> shuttingDown,
      initialized |-> initialized, state |-> state, sent |-> sent,
      settings |-> settings, cbLog |-> cbLog, lastSnap |-> lastSnap,
      calls |-> calls, handled |-> handled, setupSeen |-> setupSeen,
      lastUpd |-> lastUpd]

\* the STATE messages _update_state put on the socket between two values of sent
StateMsgs(old, new) ==
    [i \in 1..(Len(new) - Len(old)) |->
        [type |-> Type_STATE, data |-> new[Len(old) + i]]]

Commit(w) ==
    /\ chan' = chan \o StateMsgs(sent, w.sent)
    /\ enabled' = w.enabled
    /\ shuttingDown' = w.shuttingDown
    /\ initialized' = w.initialized
    /\ state' = w.state
    /\ sent' = w.sent
    /\ settings' = w.settings
    /\ cbLog' = w.cbLog
    /\ lastSnap' = w.lastSnap
    /\ calls' = w.calls
    /\ handled' = w.handled
    /\ setupSeen' = w.setupSeen
    /\ lastUpd' = w.lastUpd

update_state_stale_flags(w, value, msg) ==
    LET v == IF value = None /\ w.state # NoState THEN w.state.value ELSE value
        new_state == IF w.state = NoState
                     THEN ServiceState(w.enabled, w.shuttingDown, v, msg)
                     ELSE ServiceState(w.state.enable, w.shuttingDown, v, msg)
    IN IF ~state_eq(w.state, new_state)
       THEN [w EXCEPT !.state = new_state,
                      !.sent = Append(@, to_data(new_state)),
                      !.lastUpd = [prev |-> w.state, new |-> new_state,
                                   sent |-> TRUE]]
       ELSE [w EXCEPT !.lastUpd = [prev |-> w.state, new |-> new_state,
                                   sent |-> FALSE]]

\* BaseService._update_state
update_state(w, value, msg) ==
    LET v == IF value = None /\ w.state # NoState THEN w.state.value ELSE value
        new_state == ServiceState(w.enabled, w.shuttingDown, v, msg)
    IN IF ~state_eq(w.state, new_state)
       THEN [w EXCEPT !.state = new_state,
                      !.sent = Append(@, to_data(new_state)),
                      !.lastUpd = [prev |-> w.state, new |-> new_state,
                                   sent |-> TRUE]]
       ELSE [w EXCEPT !.lastUpd = [prev |-> w.state, new |-> new_state,
                                   sent |-> FALSE]]

\* the hooks _setup, _enable, _on_shutdown, _handle_message: recorded in calls
hook_setup(w) == [w EXCEPT !.calls = Append(@, "setup"),
                           !.setupSeen = w.settings]
hook_enable(w, enable) ==
    [w EXCEPT !.calls = Append(@, IF enable THEN "enable(True)"
                                            ELSE "enable(False)")]
hook_on_shutdown(w) == [w EXCEPT !.calls = Append(@, "on_shutdown")]
hook_handle_message(w) == [w EXCEPT !.calls = Append(@, "handle_message")]

\* BaseService.__service_enable
service_enable(w, enable) ==
    LET w1 == [w EXCEPT !.enabled = enable]
    IN IF w1.initialized THEN hook_enable(w1, enable) ELSE w1

service_setup_no_flag(w) ==
    LET w1 == hook_setup(w)
    IN IF w1.enabled THEN service_enable(w1, w1.enabled) ELSE w1

service_setup_no_enable(w) == [hook_setup(w) EXCEPT !.initialized = TRUE]

\* BaseService.__service_setup
service_setup(w) ==
    LET w1 == [hook_setup(w) EXCEPT !.initialized = TRUE]
    IN IF w1.enabled THEN service_enable(w1, w1.enabled) ELSE w1

\* BaseService.__service_on_shutdown
service_on_shutdown(w) ==
    hook_on_shutdown(hook_enable([w EXCEPT !.shuttingDown = TRUE], FALSE))

\* BaseService.__load_settings
load_settings(w, snap, order) ==
    LET r == update(w.settings, units, snap, order)
    IN [w EXCEPT !.settings = r.settings]

MsgLabel(m) ==
    IF m.type = Type_ENABLE THEN (IF m.data THEN "ENABLE(True)" ELSE "ENABLE(False)")
    ELSE IF m.type = Type_KILL THEN "KILL"
    ELSE IF m.type = Type_SETTINGS THEN "SETTINGS"
    ELSE "OTHER"

service_handle_message_enable_unguarded(w0, m, order) ==
    LET w == [w0 EXCEPT !.handled = Append(@, MsgLabel(m))]
    IN IF m.type = Type_ENABLE
       THEN update_state(service_enable(w, m.data), None, None)
       ELSE IF m.type = Type_KILL
       THEN IF ~w.shuttingDown
            THEN update_state(service_on_shutdown(w), None, None)
            ELSE w
       ELSE IF m.type = Type_SETTINGS
       THEN LET w1 == load_settings(w, m.data, order)
            IN IF ~w1.initialized THEN service_setup(w1) ELSE w1
       ELSE hook_handle_message(w)

service_handle_message_kill_unguarded(w0, m, order) ==
    LET w == [w0 EXCEPT !.handled = Append(@, MsgLabel(m))]
    IN IF m.type = Type_ENABLE
       THEN IF w.enabled # m.data
            THEN update_state(service_enable(w, m.data), None, None)
            ELSE w
       ELSE IF m.type = Type_KILL
       THEN update_state(service_on_shutdown(w), None, None)
       ELSE IF m.type = Type_SETTINGS
       THEN LET w1 == load_settings(w, m.data, order)
            IN IF ~w1.initialized THEN service_setup(w1) ELSE w1
       ELSE hook_handle_message(w)

\* BaseService.__service_handle_message for a message that is not None
service_handle_message(w0, m, order) ==
    LET w == [w0 EXCEPT !.handled = Append(@, MsgLabel(m))]
    IN IF m.type = Type_ENABLE
       THEN IF w.enabled # m.data
            THEN update_state(service_enable(w, m.data), None, None)
            ELSE w
       ELSE IF m.type = Type_KILL
       THEN IF ~w.shuttingDown
            THEN update_state(service_on_shutdown(w), None, None)
            ELSE w
       ELSE IF m.type = Type_SETTINGS
       THEN LET w1 == load_settings(w, m.data, order)
            IN IF ~w1.initialized THEN service_setup(w1) ELSE w1
       ELSE hook_handle_message(w)

\* the registrations of CaptureService.__init__
CaptureUnits ==
    <<[keys |-> {"hIpAddress", "hPort"}, callback |-> TRUE],
      [keys |-> {"cFrameRate"}, callback |-> TRUE],
      [keys |-> {"cWidth", "cHeight", "cPriority"}, callback |-> FALSE]>>

CaptureKeys == UNION {CaptureUnits[i].keys : i \in DOMAIN CaptureUnits}

\* BaseService.__init__
construct(require_settings) ==
    LET w0 == [enabled |-> FALSE, shuttingDown |-> FALSE,
               initialized |-> FALSE, state |-> NoState, sent |-> <<>>,
               settings |-> <<>>, cbLog |-> <<>>, lastSnap |-> <<>>,
               calls |-> <<>>, handled |-> <<>>, setupSeen |-> <<>>,
               lastUpd |-> [prev |-> NoState, new |-> NoState, sent |-> FALSE]]
        w1 == update_state(w0, None, None)
        w2 == IF ~require_settings
              THEN [hook_setup(w1) EXCEPT !.initialized = TRUE]
              ELSE [w1 EXCEPT !.initialized = FALSE]
    IN [w2 EXCEPT !.settings = [k \in CaptureKeys |-> None]]

----------------------------------------------------------------------------
(* Controller (ServiceConnector) sends *)

\* settings snapshots the controller sends to the worker
Snapshots ==
    {[k \in {"hIpAddress", "hPort", "cFrameRate"} |->
         IF k = "hIpAddress" THEN "ip1" ELSE IF k = "hPort" THEN "p1" ELSE "r1"],
     [k \in {"hIpAddress", "lCountTop"} |->
         IF k = "hIpAddress" THEN "ip2" ELSE "n1"]}

Send(m) ==
    /\ nSent < MaxMsgs
    /\ pc # "done"           \* the worker's socket is open until run() returns
    /\ inbox' = Append(inbox, m)
    /\ nSent' = nSent + 1
    /\ UNCHANGED <<requireSettings, enabled, shuttingDown, initialized, state,
                   sent, pc, delay, settings, units, cbLog, lastSnap, calls,
                   handled, setupSeen, lastUpd, chan, timerVars>>

\* ServiceConnector.enable
Enable ==
    /\ \E b \in BOOLEAN : Send([type |-> Type_ENABLE, data |-> b])
    /\ UNCHANGED connVars

\* ServiceConnector.shutdown (the send)
Shutdown ==
    /\ Send([type |-> Type_KILL, data |-> None])
    /\ UNCHANGED connVars

\* ServiceConnector.update_settings
UpdateSettings ==
    /\ \E s \in Snapshots : Send([type |-> Type_SETTINGS, data |-> s])
    /\ UNCHANGED connVars

\* a message of a type the worker does not know
SendUnknown ==
    /\ Send([type |-> Type_STATE, data |-> None])
    /\ UNCHANGED connVars

----------------------------------------------------------------------------
(* Worker: BaseService.run and CaptureService._run_service *)

Runs(c) == Len(SelectSeq(c, LAMBDA x : x = "run_service"))

\* the while condition of run()
loop_cond_true(w) == TRUE
loop_cond(w) == ~w.shuttingDown

\* the branch of run() that invokes the work function
should_run_enabled(w) == w.enabled
should_run(w) == w.enabled /\ w.initialized

\* handle the head of the inbox, or None when it is empty (check_for_message)
HandlePending(w) ==
    IF inbox = <<>>
    THEN /\ Commit(w)
         /\ inbox' = inbox
    ELSE \E order \in (IF Head(inbox).type = Type_SETTINGS
                       THEN Orders(DOMAIN Head(inbox).data) ELSE {<<>>}) :
            /\ Commit(service_handle_message(w, Head(inbox), order))
            /\ inbox' = Tail(inbox)

\* run(): disabled or not initialized, block in wait_for_message and handle
WaitForMessage ==
    /\ pc = "loop"
    /\ loop_cond(W)
    /\ ~should_run(W)
    /\ inbox # <<>>
    /\ HandlePending(W)
    /\ UNCHANGED <<requireSettings, pc, delay, units, nSent, connVars,
                   timerVars>>

\* run(): enabled and initialized, _run_service up to its first blocking point
RunService ==
    /\ pc = "loop"
    /\ loop_cond(W)
    /\ should_run(W)
    /\ Runs(calls) < MaxRuns
    /\ LET w == [W EXCEPT !.calls = Append(@, "run_service")]
       IN \/ /\ Commit(w)                               \* connected, image sent
             /\ pc' = "check"
             /\ delay' = 0
          \/ /\ Commit(update_state(w, OK, None))       \* reconnected
             /\ pc' = "check"
             /\ delay' = 0
          \/ \E f \in Faults :                          \* HyperionError
                /\ Commit(update_state(w, ERROR, f))
                /\ pc' = "backoff"
                /\ delay' = ERROR_DELAY
    /\ UNCHANGED <<requireSettings, inbox, units, nSent, connVars, timerVars>>

SafeDelayPoll_no_return ==
    /\ pc = "backoff"
    /\ delay > SAFE_DELAY_INCREMENT
    /\ delay' = delay - SAFE_DELAY_INCREMENT
    /\ HandlePending(W)
    /\ pc' = "backoff"
    /\ UNCHANGED <<requireSettings, units, nSent, connVars, timerVars>>

SafeDelayPoll_no_handle ==
    /\ pc = "backoff"
    /\ delay > SAFE_DELAY_INCREMENT
    /\ delay' = delay - SAFE_DELAY_INCREMENT
    /\ pc' = "backoff"
    /\ UNCHANGED <<requireSettings, enabled, shuttingDown, initialized, state,
                   sent, inbox, settings, units, cbLog, lastSnap, calls,
                   handled, setupSeen, lastUpd, nSent, chan, connVars,
                   timerVars>>

\* _safe_delay: one increment of the loop
SafeDelayPoll ==
    /\ pc = "backoff"
    /\ delay > SAFE_DELAY_INCREMENT
    /\ delay' = delay - SAFE_DELAY_INCREMENT
    /\ HandlePending(W)
    /\ pc' = IF shuttingDown' THEN "check" ELSE "backoff"
    /\ UNCHANGED <<requireSettings, units, nSent, connVars, timerVars>>

\* _safe_delay: the remaining sleep after the loop
SafeDelayEnd ==
    /\ pc = "backoff"
    /\ delay <= SAFE_DELAY_INCREMENT
    /\ pc' = "check"
    /\ delay' = 0
    /\ UNCHANGED <<requireSettings, enabled, shuttingDown, initialized, state,
                   sent, inbox, settings, units, cbLog, lastSnap, calls,
                   handled, setupSeen, lastUpd, nSent, chan, connVars,
                   timerVars>>

\* run(): after _run_service returned, check_for_message and handle
CheckForMessage ==
    /\ pc = "check"
    /\ HandlePending(W)
    /\ pc' = "loop"
    /\ UNCHANGED <<requireSettings, delay, units, nSent, connVars, timerVars>>

\* run(): the while condition fails, run() returns
Exit ==
    /\ pc = "loop"
    /\ ~loop_cond(W)
    /\ pc' = "done"
    /\ UNCHANGED <<requireSettings, enabled, shuttingDown, initialized, state,
                   sent, inbox, delay, settings, units, cbLog, lastSnap, calls,
                   handled, setupSeen, lastUpd, nSent, chan, connVars,
                   timerVars>>

\* ServiceState.from_data
from_data(data) ==
    ServiceState(data.service.enable, data.service.shutdown, data.value,
                 data.msg)

\* ServiceConnector.__init__ with spawn_monitor=True, no call made yet
ConnInit ==
    /\ connState = ServiceState(FALSE, FALSE, None, None)
    /\ event = FALSE
    /\ lock = "none"
    /\ monPc = "recv"
    /\ monMsg = None
    /\ received = <<>>
    /\ callerPc = "idle"
    /\ nUpdates = 0
    /\ nReturns = 0
    /\ lastAccess = [thread |-> "none", op |-> "none", lock |-> "none"]

\* DelayTimer.__init__
TimerInit ==
    /\ clock = 0
    /\ timerDelay = 0
    /\ lastTime = 0
    /\ started = FALSE
    /\ slept = 0
    /\ timerOp = "init"

Init ==
    /\ requireSettings \in BOOLEAN
    /\ chan = StateMsgs(<<>>, construct(requireSettings).sent)
    /\ ConnInit
    /\ TimerInit
    /\ LET w == construct(requireSettings)
       IN /\ enabled = w.enabled
          /\ shuttingDown = w.shuttingDown
          /\ initialized = w.initialized
          /\ state = w.state
          /\ sent = w.sent
          /\ settings = w.settings
          /\ cbLog = w.cbLog
          /\ lastSnap = w.lastSnap
          /\ calls = w.calls
          /\ handled = w.handled
          /\ setupSeen = w.setupSeen
          /\ lastUpd = w.lastUpd
    /\ units = CaptureUnits
    /\ inbox = <<>>
    /\ pc = "loop"
    /\ delay = 0
    /\ nSent = 0

Next ==
    \/ Enable
    \/ Shutdown
    \/ UpdateSettings
    \/ SendUnknown
    \/ WaitForMessage
    \/ RunService
    \/ SafeDelayPoll
    \/ SafeDelayEnd
    \/ CheckForMessage
    \/ Exit

Spec == Init /\ [][Next]_vars

----------------------------------------------------------------------------
(* SettingsStore on its own *)

\* keys units register, and the keys and values of snapshots
UnitKeys == {"a", "b"}
SnapKeys == {"a", "b", "z"}
Values == {"v1", "v2"}

\* a key no unit registers always comes with the same value
StoreSnapshots ==
    {f \in UNION {[K -> Values] : K \in SUBSET SnapKeys} :
        \A k \in DOMAIN f \ UnitKeys : f[k] = "v1"}

\* SettingsStore.add_unit
AddUnit ==
    /\ Len(units) < MaxUnits
    /\ \E keys \in SUBSET UnitKeys \ {{}}, callback \in BOOLEAN :
          LET r == add_unit(settings, units, keys, callback)
          IN /\ units' = r.units
             /\ settings' = r.settings
    /\ UNCHANGED <<requireSettings, enabled, shuttingDown, initialized, state,
                   sent, inbox, pc, delay, cbLog, lastSnap, calls, handled,
                   setupSeen, lastUpd, nSent, chan, connVars, timerVars>>

\* SettingsStore.update
StoreUpdate ==
    /\ \E snap \in StoreSnapshots : \E order \in Orders(DOMAIN snap) :
          LET r == update(settings, units, snap, order)
          IN /\ settings' = r.settings
             /\ cbLog' = r.cbLog
             /\ lastSnap' = snap
    /\ UNCHANGED <<requireSettings, enabled, shuttingDown, initialized, state,
                   sent, inbox, pc, delay, units, calls, handled, setupSeen,
                   lastUpd, nSent, chan, connVars, timerVars>>

\* SettingsStore.__init__ (the worker that owns the store is not running)
InitStore ==
    /\ requireSettings = TRUE
    /\ chan = StateMsgs(<<>>, construct(TRUE).sent)
    /\ ConnInit
    /\ TimerInit
    /\ LET w == construct(TRUE)
       IN /\ enabled = w.enabled
          /\ shuttingDown = w.shuttingDown
          /\ initialized = w.initialized
          /\ state = w.state
          /\ sent = w.sent
          /\ calls = w.calls
          /\ handled = w.handled
          /\ setupSeen = w.setupSeen
          /\ lastUpd = w.lastUpd
    /\ settings = <<>>
    /\ units = <<>>
    /\ cbLog = <<>>
    /\ lastSnap = <<>>
    /\ inbox = <<>>
    /\ pc = "loop"
    /\ delay = 0
    /\ nSent = 0

NextStore ==
    \/ AddUnit
    \/ StoreUpdate

SpecStore == InitStore /\ [][NextStore]_vars

----------------------------------------------------------------------------
(* ServiceConnector: the monitor thread and one caller thread, with a worker *)

workerVars == <<requireSettings, enabled, shuttingDown, initialized, state,
                sent, inbox, pc, delay, settings, units, cbLog, lastSnap,
                calls, handled, setupSeen, lastUpd, nSent>>

\* ServiceMessage.wait_for_message: the type filter (the monitor always
\* passes a type, so the `_type is None` disjunct is never taken)
accept_any(m, _type) == TRUE
accept(m, _type) == m.type = _type

\* types of the messages, other than STATE, that may reach the controller
OtherTypes == {Type_ENABLE, Type_KILL, Type_SETTINGS}

\* a payload of such a message; it has the shape of a state's data
OtherData == to_data(ServiceState(TRUE, TRUE, OK, None))

NonState(seq) == Len(SelectSeq(seq, LAMBDA m : m.type # Type_STATE))

\* BaseService._send_message with a message that is not a STATE
SendOther ==
    /\ pc # "done"
    /\ NonState(received) + NonState(chan) < MaxOther
    /\ \E t \in OtherTypes :
          chan' = Append(chan, [type |-> t, data |-> OtherData])
    /\ UNCHANGED <<workerVars, connVars, timerVars>>

\* __monitor_state: wait_for_message returns a STATE message or drops another
MonitorReceive ==
    /\ monPc = "recv"
    /\ chan # <<>>
    /\ chan' = Tail(chan)
    /\ received' = Append(received, Head(chan))
    /\ IF accept(Head(chan), Type_STATE)
       THEN /\ monMsg' = Head(chan).data
            /\ monPc' = "write"
       ELSE /\ monMsg' = monMsg
            /\ monPc' = "recv"
    /\ UNCHANGED <<workerVars, connState, event, lock, callerPc, nUpdates,
                   nReturns, lastAccess, timerVars>>

\* __update_state: take the lock and replace the cached state
MonitorWrite ==
    /\ monPc = "write"
    /\ lock = "none"
    /\ lock' = "monitor"
    /\ connState' = from_data(monMsg)
    /\ lastAccess' = [thread |-> "monitor", op |-> "update_state",
                      lock |-> "monitor"]
    /\ monPc' = "set"
    /\ UNCHANGED <<workerVars, chan, event, monMsg, received, callerPc,
                   nUpdates, nReturns, timerVars>>

\* __update_state: set the event and leave the with block
MonitorSet_no_event ==
    /\ monPc = "set"
    /\ nUpdates' = nUpdates + 1
    /\ lock' = "none"
    /\ monPc' = "recv"
    /\ UNCHANGED <<workerVars, chan, connState, event, monMsg, received,
                   callerPc, nReturns, lastAccess, timerVars>>

MonitorSet ==
    /\ monPc = "set"
    /\ event' = TRUE
    /\ nUpdates' = nUpdates + 1
    /\ lock' = "none"
    /\ monPc' = "recv"
    /\ UNCHANGED <<workerVars, chan, connState, monMsg, received, callerPc,
                   nReturns, lastAccess, timerVars>>

\* the caller thread calls enable()
ConnEnable ==
    /\ callerPc = "idle"
    /\ Enable

\* get_state: enter the with block
GetStateLock ==
    /\ callerPc = "idle"
    /\ lock = "none"
    /\ lock' = "caller"
    /\ callerPc' = "gs_read"
    /\ UNCHANGED <<workerVars, chan, connState, event, monPc, monMsg,
                   received, nUpdates, nReturns, lastAccess, timerVars>>

\* get_state: read the cached state, leave the with block
GetStateRead ==
    /\ callerPc = "gs_read"
    /\ lastAccess' = [thread |-> "caller", op |-> "get_state", lock |-> lock]
    /\ lock' = "none"
    /\ callerPc' = "idle"
    /\ UNCHANGED <<workerVars, chan, connState, event, monPc, monMsg,
                   received, nUpdates, nReturns, timerVars>>

\* wait_for_update: Event.wait returns True (a timed-out wait returns False
\* and changes nothing)
WaitForUpdate ==
    /\ callerPc = "idle"
    /\ event
    /\ callerPc' = "wfu_clear"
    /\ UNCHANGED <<workerVars, chan, connState, event, lock, monPc, monMsg,
                   received, nUpdates, nReturns, lastAccess, timerVars>>

\* wait_for_update: Event.clear, return True
WaitForUpdateClear ==
    /\ callerPc = "wfu_clear"
    /\ event' = FALSE
    /\ nReturns' = nReturns + 1
    /\ callerPc' = "idle"
    /\ UNCHANGED <<workerVars, chan, connState, lock, monPc, monMsg,
                   received, nUpdates, lastAccess, timerVars>>

\* shutdown(): send KILL
ShutdownSend ==
    /\ callerPc = "idle"
    /\ Send([type |-> Type_KILL, data |-> None])
    /\ callerPc' = "sd_check"
    /\ UNCHANGED <<connState, event, lock, monPc, monMsg, received, nUpdates,
                   nReturns, lastAccess>>

\* shutdown(): the loop condition reads self.__state, without the lock
ShutdownCheck ==
    /\ callerPc = "sd_check"
    /\ lastAccess' = [thread |-> "caller", op |-> "shutdown", lock |-> lock]
    /\ callerPc' = IF connState.shutdown THEN "returned" ELSE "sd_wait"
    /\ UNCHANGED <<workerVars, chan, connState, event, lock, monPc, monMsg,
                   received, nUpdates, nReturns, timerVars>>

\* shutdown(): wait_for_update(), Event.wait with no timeout returns
ShutdownWait ==
    /\ callerPc = "sd_wait"
    /\ event
    /\ callerPc' = "sd_clear"
    /\ UNCHANGED <<workerVars, chan, connState, event, lock, monPc, monMsg,
                   received, nUpdates, nReturns, lastAccess, timerVars>>

\* shutdown(): wait_for_update(), Event.clear, return True
ShutdownClear ==
    /\ callerPc = "sd_clear"
    /\ event' = FALSE
    /\ nReturns' = nReturns + 1
    /\ callerPc' = "sd_check"
    /\ UNCHANGED <<workerVars, chan, connState, lock, monPc, monMsg,
                   received, nUpdates, lastAccess, timerVars>>

\* the worker is constructed with require_settings=True and is sent no
\* settings: it handles ENABLE and KILL, publishes a STATE for each change
\* and never invokes the work function
InitConn ==
    /\ Init
    /\ requireSettings = TRUE

WorkerStep ==
    \/ WaitForMessage
    \/ Exit

MonitorStep ==
    \/ MonitorReceive
    \/ MonitorWrite
    \/ MonitorSet

CallerStep ==
    \/ ConnEnable
    \/ GetStateLock
    \/ GetStateRead
    \/ WaitForUpdate
    \/ WaitForUpdateClear
    \/ ShutdownSend
    \/ ShutdownCheck
    \/ ShutdownWait
    \/ ShutdownClear

NextConn ==
    \/ WorkerStep
    \/ SendOther
    \/ MonitorStep
    \/ CallerStep

SpecConn == InitConn /\ [][NextConn]_vars

\* a worker that sends STATE messages only, as CaptureService does
NextStateOnly ==
    \/ WorkerStep
    \/ MonitorStep
    \/ CallerStep

\* fair scheduling: the worker and the monitor thread keep running, and the
\* caller thread keeps running once it is inside shutdown()
FairSpecConn ==
    /\ InitConn
    /\ [][NextStateOnly]_vars
    /\ WF_vars(WorkerStep)
    /\ WF_vars(MonitorStep)
    /\ WF_vars(ShutdownCheck \/ ShutdownWait \/ ShutdownClear)

----------------------------------------------------------------------------
(* DelayTimer on its own, time in whole units *)

\* DelayTimer.delay: the time passed to time.sleep, 0 when it is not called
delay_amount_no_elapsed(_delay, now, last_time) == IF _delay > 0 THEN _delay ELSE 0
delay_amount(_delay, now, last_time) ==
    LET delta == _delay - (now - last_time)
    IN IF delta > 0 THEN delta ELSE 0

\* DelayTimer.set_delay
SetDelay ==
    /\ \E d \in 0..MaxInterval : timerDelay' = d
    /\ timerOp' = "set_delay"
    /\ UNCHANGED <<workerVars, chan, connVars, clock, lastTime, started, slept>>

\* DelayTimer.start
Start ==
    /\ lastTime' = clock
    /\ started' = TRUE
    /\ timerOp' = "start"
    /\ UNCHANGED <<workerVars, chan, connVars, clock, timerDelay, slept>>

\* the caller works between two calls: time.clock() advances
Tick ==
    /\ clock < MaxTime
    /\ clock' = clock + 1
    /\ timerOp' = "tick"
    /\ UNCHANGED <<workerVars, chan, connVars, timerDelay, lastTime, started,
                   slept>>

\* DelayTimer.delay; time.clock() is the processor time on Unix, where a
\* sleep does not advance it, and the wall-clock time on Windows
Delay ==
    /\ slept' = delay_amount(timerDelay, clock, lastTime)
    /\ clock' \in {clock, clock + slept'} \cap (0..MaxTime)
    /\ timerOp' = "delay"
    /\ UNCHANGED <<workerVars, chan, connVars, timerDelay, lastTime, started>>

InitTimer ==
    /\ Init
    /\ requireSettings = TRUE

NextTimer ==
    \/ SetDelay
    \/ Start
    \/ Tick
    \/ Delay

SpecTimer == InitTimer /\ [][NextTimer]_vars

----------------------------------------------------------------------------
(* Properties *)

Count(seq, x) == Len(SelectSeq(seq, LAMBDA y : y = x))
Has(seq, x) == \E i \in DOMAIN seq : seq[i] = x

\* the (enable, shutdown) pairs of a sequence of STATE payloads, without
\* consecutive repetitions
Lifecycle(s) ==
    LET F[i \in 0..Len(s)] ==
            IF i = 0 THEN <<>>
            ELSE IF i > 1 /\ s[i].service = s[i-1].service THEN F[i-1]
                 ELSE Append(F[i-1], s[i].service)
    IN F[Len(s)]

Flags(e, d) == [enable |-> e, shutdown |-> d]

\* C1: whenever shuttingDown is true enabled is false, and every STATE
\* message published with shutdown=true carries enable=false.
C1_ShutdownImpliesDisabled ==
    /\ shuttingDown => ~enabled
    /\ \A i \in DOMAIN sent : sent[i].service.shutdown => ~sent[i].service.enable

\* a step of the worker that begins an iteration of the main loop of run()
IterationBegins ==
    /\ pc = "loop"
    /\ \/ handled' # handled
       \/ calls' # calls
       \/ pc' \notin {"loop", "done"}

\* C2: shuttingDown never goes back to false, whatever message is handled
\* afterwards, and once it is true no iteration of the main loop begins and
\* a finished run() stays finished.
C2_ShutdownMonotonic ==
    [][shuttingDown => /\ shuttingDown'
                       /\ ~IterationBegins
                       /\ (pc = "done" => pc' = "done")]_vars

\* C2 witness: run() returned after a message was handled behind the KILL.
C2_Witness ==
    /\ pc = "done"
    /\ shuttingDown
    /\ \E i \in DOMAIN handled : handled[i] = "KILL" /\ i < Len(handled)

\* C3: the work function is invoked only from states where enabled and
\* initialized are true and shuttingDown is false; so none begins once
\* shuttingDown is true.
C3_WorkOnlyWhenEnabled ==
    [][Runs(calls') > Runs(calls) =>
            enabled /\ initialized /\ ~shuttingDown]_vars

\* C3 witness: a KILL was handled in the backoff of a work invocation and
\* run() returned.
C3_Witness ==
    /\ pc = "done"
    /\ Runs(calls) > 0
    /\ state.value = ERROR
    /\ state.shutdown

\* C4: a call of _update_state sends iff the recomputed state differs from
\* the published one; no two consecutive STATE messages are equal; a step
\* that changes enabled or shuttingDown sends exactly one STATE message, which
\* carries the new flags.
C4_SendIffDifferent ==
    /\ [](lastUpd.sent <=> lastUpd.prev # lastUpd.new)
    /\ [](\A i \in 1..(Len(sent) - 1) : sent[i] # sent[i+1])
    /\ [][(enabled' # enabled \/ shuttingDown' # shuttingDown) =>
             /\ Len(sent') = Len(sent) + 1
             /\ sent'[Len(sent')].service = Flags(enabled', shuttingDown')]_vars

\* C4 witness: the work function failed twice with the same message, the
\* second _update_state sent nothing.
C4_Witness ==
    /\ ~lastUpd.sent
    /\ lastUpd.new.value = ERROR
    /\ Runs(calls) = 2

\* C9: a worker requiring settings that handles SETTINGS, ENABLE(true), KILL
\* publishes {F,F}, {T,F}, {F,T} and run() returns.
C9_Scenario ==
    (/\ requireSettings
     /\ handled = <<"SETTINGS", "ENABLE(True)", "KILL">>
     /\ inbox = <<>>
     /\ pc = "done")
    => /\ Lifecycle(sent) = <<Flags(FALSE, FALSE), Flags(TRUE, FALSE),
                              Flags(FALSE, TRUE)>>
       /\ shuttingDown

\* the step runs _setup
SetupRuns == Count(calls', "setup") > Count(calls, "setup")

----------------------------------------------------------------------------
(* Properties of the SettingsStore (SpecStore) *)

\* a step of SpecStore that is a call of update()
UpdateStep == units' = units

Invoked(log, j) == \E i \in DOMAIN log : log[i].unit = j

\* C5: one update() invokes each unit's callback at most once.
C5_CallbackAtMostOnce ==
    \A i, j \in DOMAIN cbLog : cbLog[i].unit = cbLog[j].unit => i = j

\* C6: update() invokes the callback of a unit iff a key of the unit is in
\* the snapshot with a value different from the stored one; a snapshot
\* whose values are all the stored ones invokes nothing and changes nothing.
C6_CallbackIffChanged ==
    [][UpdateStep =>
         /\ \A j \in DOMAIN units : units[j].callback =>
               (Invoked(cbLog', j) <=>
                  \E k \in units[j].keys \cap DOMAIN lastSnap' :
                      settings[k] # lastSnap'[k])
         /\ \A i \in DOMAIN cbLog' :
               cbLog'[i].unit \in DOMAIN units /\ units[cbLog'[i].unit].callback
         /\ (\A k \in DOMAIN settings \cap DOMAIN lastSnap' :
                settings[k] = lastSnap'[k])
            => cbLog' = <<>> /\ settings' = settings]_vars

\* C6 witness: the snapshot just applied a second time invoked nothing, with
\* a callback registered for a key it holds.
C6_Witness ==
    /\ cbLog = <<>>
    /\ \E j \in DOMAIN units :
          /\ units[j].callback
          /\ \E k \in units[j].keys \cap DOMAIN lastSnap :
                settings[k] = lastSnap[k]

\* C7: every callback of update() runs with every store key of the snapshot
\* already holding the snapshot's value.
C7_CallbackSeesWholeSnapshot ==
    \A i \in DOMAIN cbLog :
        \A k \in DOMAIN lastSnap \cap DOMAIN cbLog[i].seen :
            cbLog[i].seen[k] = lastSnap[k]

\* C8: the store's keys are the keys of the registered units; update() adds
\* no key, gives the keys of the snapshot the snapshot's values and leaves
\* the other keys alone.
C8_UpdateFrame ==
    /\ [](DOMAIN settings = UNION {units[j].keys : j \in DOMAIN units})
    /\ [][UpdateStep =>
             /\ DOMAIN settings' = DOMAIN settings
             /\ \A k \in DOMAIN settings :
                   settings'[k] = IF k \in DOMAIN lastSnap'
                                  THEN lastSnap'[k] ELSE settings[k]]_vars

\* C8 witness: a snapshot with an unregistered key and without a registered
\* one that holds a value has been applied.
C8_Witness ==
    /\ "z" \in DOMAIN lastSnap
    /\ \E k \in DOMAIN settings \ DOMAIN lastSnap : settings[k] # None
    /\ \E k \in DOMAIN settings \cap DOMAIN lastSnap : TRUE

----------------------------------------------------------------------------
(* Properties of the worker: buffered enable, KILL, the error backoff *)

\* the most recent ENABLE among the handled messages h carried true
BufferedEnable(h) ==
    \E i \in DOMAIN h :
        /\ h[i] = "ENABLE(True)"
        /\ \A j \in (i + 1)..Len(h) : h[j] # "ENABLE(False)"

\* C11: on the first SETTINGS of a worker that requires settings, the enable
\* hook is invoked with true once, right after setup, iff the most recent
\* ENABLE handled before carried true, and the work function is then due;
\* otherwise only setup runs and the worker stays disabled.  The enable hook
\* is not invoked with true before that.
C11_BufferedEnable ==
    /\ []((requireSettings /\ ~initialized) => ~Has(calls, "enable(True)"))
    /\ [][(requireSettings /\ SetupRuns) =>
             IF BufferedEnable(handled)
             THEN /\ calls' = calls \o <<"setup", "enable(True)">>
                  /\ enabled' /\ initialized' /\ ~shuttingDown'
                  /\ pc' = "loop"
             ELSE /\ calls' = calls \o <<"setup">>
                  /\ ~enabled'
                  /\ pc' = "loop"]_vars

\* C11 witness: ENABLE(true) was buffered, SETTINGS came and the work
\* function ran.
C11_Witness ==
    /\ requireSettings
    /\ handled = <<"ENABLE(True)", "SETTINGS">>
    /\ Runs(calls) > 0

\* the step handles a KILL
KillHandled ==
    /\ inbox # <<>>
    /\ Head(inbox).type = Type_KILL
    /\ handled' = Append(handled, "KILL")

\* C12: _on_shutdown runs at most once, and a KILL handled while
\* shuttingDown is true changes no worker state and sends nothing.
C12_KillIdempotent ==
    /\ [](Count(calls, "on_shutdown") <= 1)
    /\ [][(shuttingDown /\ KillHandled) =>
             UNCHANGED <<enabled, shuttingDown, initialized, state, sent,
                         settings, calls, chan>>]_vars

\* C12 witness: two KILLs have been handled.
C12_Witness == Count(handled, "KILL") = 2

\* C13: once a STATE with shutdown=true is published the worker handles no
\* further message and sends no further STATE message.
C13_ShutdownStateIsFinal ==
    [][state.shutdown => handled' = handled /\ sent' = sent]_vars

\* a step of _safe_delay that ends one polling increment
PollStep ==
    /\ pc = "backoff"
    /\ delay > SAFE_DELAY_INCREMENT
    /\ delay' < delay

HeadIs(type) == inbox # <<>> /\ Head(inbox).type = type

IsDisable(m) == m.type = Type_ENABLE /\ m.data = FALSE

InShutdown == callerPc \in {"sd_check", "sd_wait", "sd_clear"}

C16_ShutdownReturns ==
    /\ [](callerPc = "returned" => connState.shutdown)
    /\ (InShutdown ~> callerPc = "returned")

\* shutdown() returned after it waited for an update at least once
C16_Witness ==
    /\ callerPc = "returned"
    /\ lastAccess.op = "shutdown"
    /\ nReturns > 0
    /\ connState.shutdown

\* C17: each update the monitor records makes exactly one wait_for_update
\* return True: with the caller outside wait_for_update, the monitor outside
\* __update_state and the event clear, there were as many returns as updates
C17_ExactlyOncePerUpdate ==
    /\ nReturns <= nUpdates
    /\ (/\ callerPc \in {"idle", "sd_check", "returned"}
        /\ monPc # "set"
        /\ ~event) => nReturns = nUpdates

\* C18: every access to the cached state is made by a thread holding the lock
C18_AccessUnderLock ==
    lastAccess.thread # "none" => lastAccess.lock = lastAccess.thread

\* the payload of the most recent STATE message in a sequence, as a state
LastState(seq) ==
    LET st == SelectSeq(seq, LAMBDA m : m.type = Type_STATE)
    IN IF st = <<>> THEN ServiceState(FALSE, FALSE, None, None)
       ELSE from_data(st[Len(st)].data)

\* C19: the cache is the payload of the most recently received STATE message
\* (the default before the first), once __update_state has written it; a
\* message of another type changes neither the cache nor the event
C19_CacheIsLastState ==
    /\ [](monPc # "write" => connState = LastState(received))
    /\ [](monPc = "write" =>
             connState = LastState(SubSeq(received, 1, Len(received) - 1)))
    /\ [][(received' # received
           /\ received'[Len(received')].type # Type_STATE)
          => /\ connState' = connState
             /\ event' = event
             /\ monPc' = "recv"
             /\ nUpdates' = nUpdates]_vars
    /\ [][connState' # connState =>
            /\ monPc = "write"
            /\ received[Len(received)].type = Type_STATE
            /\ connState' = from_data(received[Len(received)].data)]_vars

\* the monitor dropped a message of another type after it cached a state
C19_Witness ==
    /\ Len(received) >= 2
    /\ received[Len(received)].type # Type_STATE
    /\ connState.enable
    /\ monPc = "recv"

\* C20: after a start(), delay() blocks for exactly
\* max(0, interval - (now - startMark)): not at all when the elapsed time is
\* at least the interval, and never longer than the interval
Elapsed == clock - lastTime

IsEnableHook(c) == c \in {"enable(True)", "enable(False)"}

\* C21: _enable is never invoked before _setup has completed: every
\* invocation of the enable hook follows the invocation of the setup hook
C21_EnableAfterSetup ==
    \A i \in DOMAIN calls :
        IsEnableHook(calls[i]) => \E j \in 1..(i - 1) : calls[j] = "setup"

\* a step that handles an ENABLE message
EnableHandled ==
    /\ inbox # <<>>
    /\ Head(inbox).type = Type_ENABLE
    /\ handled' = Append(handled, MsgLabel(Head(inbox)))

\* C22: an ENABLE whose payload equals the enabled flag invokes no hook,
\* changes no worker state and sends nothing; an ENABLE invokes the enable
\* hook exactly when the flag toggles and the worker is initialized
C22_SameEnableIsNoOp ==
    /\ [][(EnableHandled /\ Head(inbox).data = enabled) =>
             UNCHANGED <<enabled, shuttingDown, initialized, state, sent,
                         settings, calls, chan>>]_vars
    /\ [][EnableHandled =>
             IF Head(inbox).data # enabled /\ initialized
             THEN calls' = Append(calls, IF Head(inbox).data
                                         THEN "enable(True)"
                                         ELSE "enable(False)")
             ELSE calls' = calls]_vars

\* an initialized worker handled ENABLE(true) twice in a row
C22_Witness ==
    /\ initialized
    /\ \E i \in 1..(Len(handled) - 1) :
          /\ handled[i] = "ENABLE(True)"
          /\ handled[i + 1] = "ENABLE(True)"
    /\ Count(calls, "enable(True)") = 1

\* C23: between message handlings the flags of the last published STATE are
\* the worker's enabled and shuttingDown flags
C23_PublishedFlagsCurrent ==
    /\ sent # <<>>
    /\ sent[Len(sent)].service.enable = enabled
    /\ sent[Len(sent)].service.shutdown = shuttingDown
    /\ state.enable = enabled
    /\ state.shutdown = shuttingDown

\* the worker handled an ENABLE(true), a SETTINGS and a KILL
C23_Witness ==
    /\ Has(handled, "ENABLE(True)")
    /\ Has(handled, "SETTINGS")
    /\ Has(handled, "KILL")
    /\ shuttingDown

\* a step that handles an ENABLE or a KILL and publishes a STATE
TransitionPublished ==
    /\ inbox # <<>>
    /\ Head(inbox).type \in {Type_ENABLE, Type_KILL}
    /\ handled' = Append(handled, MsgLabel(Head(inbox)))
    /\ Len(sent') = Len(sent) + 1

\* C24: the STATE published for a handled ENABLE or KILL carries the value
\* and the message of the previously published state
C24_TransitionKeepsHealth ==
    [][TransitionPublished =>
          /\ sent'[Len(sent')].value = sent[Len(sent)].value
          /\ sent'[Len(sent')].msg = sent[Len(sent)].msg]_vars

\* the value alone is carried over by a handled ENABLE or KILL
C24_TransitionKeepsValue ==
    [][TransitionPublished =>
          sent'[Len(sent')].value = sent[Len(sent)].value]_vars

============================================================================
